---- MODULE Spec2Model ----
(***************************************************************************)
(* A model of the three-js-toon-shader repository.                         *)
(*                                                                         *)
(*   src/src/demo.ts          the viewer: model loading, the toon toggle,  *)
(*                            the resize handler and the animation loop    *)
(*   src/src/ToonShader.ts    the edge-composite pipeline (render,         *)
(*                            setSize) and the edge filter fragment shader *)
(*   src/src/ToonMaterials.ts applyToonMaterial                            *)
(*                                                                         *)
(* JavaScript runs every handler to completion, so each event handler is   *)
(* one action.  Objects are modelled by identity: materials live in a heap *)
(* keyed by an allocation number, models by the number of the load that    *)
(* produced them.  The rotation slider, auto-rotation, the orbit controls, *)
(* the bounding-box normalisation of processModel and the object URL of an *)
(* uploaded file touch none of the state below and are left out.           *)
(***************************************************************************)
EXTENDS Integers, Sequences, FiniteSets, TLC

VARIABLES
    isToonEnabled,   \* demo.ts:12
    currentModel,    \* demo.ts:15, 0 is null
    scene,           \* the model wrappers that are children of the scene
    models,          \* model id -> its node array (the loaded scene graphs)
    materials,       \* the heap of material objects, id -> fields
    srgb,            \* the textures whose colorSpace is SRGBColorSpace
    pending,         \* the loads in flight (gltfLoader.load called, no callback yet)
    nextReq,         \* number of loadModel calls so far, plus one
    toggles,         \* number of toggle clicks so far
    lastEvent,       \* history: the handler that ran last
    firstToon,       \* history: <<model, node>> -> the first toon derivation
    loadedMat,       \* history: <<model, node>> -> the material set at load
    window,          \* window.innerWidth / innerHeight, CSS pixels
    renderer,        \* the WebGLRenderer: size, pixel ratio, render target
    sceneOverride,   \* scene.overrideMaterial
    camera,          \* the PerspectiveCamera: aspect, near, far
    toon,            \* what createToonPostProcessing closes over
    passLog,         \* history: the render calls of the last frame, in order
    graph,           \* a scene graph handed to applyToonMaterial
    graphRoot,       \* the node of it applyToonMaterial is called on
    graphOut,        \* the graph after the call, <<>> before it
    pixel,           \* the samples one fragment of the edge filter reads
    fragColor        \* gl_FragColor of that fragment, <<>> before it ran

heapVars == <<currentModel, scene, models, materials, srgb, pending, nextReq,
              firstToon, loadedMat>>
modelVars == <<isToonEnabled, toggles, lastEvent, heapVars>>
pipeVars == <<window, renderer, sceneOverride, camera, toon, passLog>>
toolVars == <<graph, graphRoot, graphOut, pixel, fragColor>>
vars == <<modelVars, pipeVars, toolVars>>

\* ------------------------------------------------------------------ bounds
MaxLoads == 3
MaxToggles == 2

\* ------------------------------------------------------------- scene graphs
\* A scene graph is an array of nodes; node 1 is the root and every other
\* node names its parent, which precedes it.  Children are ordered by index.
NoRef == [arr |-> FALSE, ids |-> <<>>]
NoTex == <<0, "none">>
RAMP == <<0, "ramp">>

GroupNode(p) == [parent |-> p, isMesh |-> FALSE, arr |-> FALSE, slots |-> <<>>]
MeshNode(p, a, s) == [parent |-> p, isMesh |-> TRUE, arr |-> a, slots |-> s]

\* The assets the loader can resolve: what GLTFLoader hands to onLoad.
AssetNames == {"single", "multi"}
AssetNodes(a) ==
    IF a = "single"
    THEN << GroupNode(0),
            MeshNode(1, FALSE, << [color |-> "red", map |-> "none"] >>) >>
    ELSE << GroupNode(0),
            MeshNode(1, TRUE, << [color |-> "blue", map |-> "none"],
                                 [color |-> "green", map |-> "texB"] >>),
            GroupNode(1),
            MeshNode(3, FALSE, << [color |-> "undefined", map |-> "texC"] >>) >>

Children(nodes, n) ==
    SelectSeq([i \in 1..Len(nodes) |-> i], LAMBDA i : nodes[i].parent = n)

\* A traversal that stops at the children of the node.
TraverseShallow(nodes, n) == <<n>> \o Children(nodes, n)

\* Object3D.traverse: the node itself, then each child's subtree, in order.
RECURSIVE Traverse(_, _)
RECURSIVE TraverseList(_, _)
Traverse(nodes, n) == <<n>> \o TraverseList(nodes, Children(nodes, n))
TraverseList(nodes, list) ==
    IF list = <<>> THEN <<>>
    ELSE Traverse(nodes, Head(list)) \o TraverseList(nodes, Tail(list))

RECURSIVE SlotsBefore(_, _)
SlotsBefore(desc, n) ==
    IF n <= 1 THEN 0 ELSE SlotsBefore(desc, n - 1) + Len(desc[n - 1].slots)

\* ------------------------------------------------------------- the heap
\* h = [models, materials, srgb]: the objects the handlers mutate.
MatIds(ref) == {ref.ids[i] : i \in 1..Len(ref.ids)}

RECURSIVE MatsFrom(_, _, _)
MatsFrom(desc, n, mid) ==
    IF n > Len(desc) THEN <<>>
    ELSE [i \in 1..Len(desc[n].slots) |->
             [kind |-> "orig",
              color |-> desc[n].slots[i].color,
              map |-> IF desc[n].slots[i].map = "none" THEN NoTex
                      ELSE <<mid, desc[n].slots[i].map>>,
              gradientMap |-> NoTex,
              side |-> "front",
              disposed |-> FALSE]]
         \o MatsFrom(desc, n + 1, mid)

\* gltf.scene as the loader delivers it: fresh nodes, fresh materials whose
\* ids follow the last allocated one.
Instantiate(desc, base) ==
    [n \in 1..Len(desc) |->
        [parent |-> desc[n].parent,
         isMesh |-> desc[n].isMesh,
         material |-> IF desc[n].isMesh
                      THEN [arr |-> desc[n].arr,
                            ids |-> [i \in 1..Len(desc[n].slots) |->
                                        base + SlotsBefore(desc, n) + i]]
                      ELSE NoRef,
         originalMat |-> NoRef,
         geomDisposed |-> FALSE]]

SetSide(mats, ids, side) ==
    [k \in 1..Len(mats) |-> IF k \in ids THEN [mats[k] EXCEPT !.side = side] ELSE mats[k]]

DisposeMats(mats, ids) ==
    [k \in 1..Len(mats) |-> IF k \in ids THEN [mats[k] EXCEPT !.disposed = TRUE] ELSE mats[k]]

\* demo.ts:118-125, the callback of the dispose traversal on one node.
DisposeNode(h, m, n) ==
    IF h.models[m][n].isMesh
    THEN [h EXCEPT !.models[m][n].geomDisposed = TRUE,
                   !.materials = DisposeMats(h.materials, MatIds(h.models[m][n].material))]
    ELSE h

\* demo.ts:136-147, the callback of the material-prep traversal on one node.
PrepNode(h, m, n) ==
    IF h.models[m][n].isMesh
    THEN [h EXCEPT !.models[m][n].originalMat = h.models[m][n].material,
                   !.materials = SetSide(h.materials, MatIds(h.models[m][n].material), "double")]
    ELSE h

\* demo.ts:177-178: original.color || white, original.map || null.  An array
\* of materials has neither property.
OriginalColor(h, original) ==
    IF ~original.arr /\ Len(original.ids) = 1
       /\ h.materials[original.ids[1]].color # "undefined"
    THEN h.materials[original.ids[1]].color
    ELSE "white"

OriginalMap(h, original) ==
    IF ~original.arr /\ Len(original.ids) = 1
    THEN h.materials[original.ids[1]].map
    ELSE NoTex

\* A ramp texture loaded anew for each derived material.
GradientMapFresh(h) == <<Len(h.materials) + 1, "ramp">>

\* demo.ts:184, the ramp the derived material references.
GradientMapOf(h) == RAMP

\* demo.ts:181-186, new THREE.MeshToonMaterial({...}).
NewToonMaterial(h, original) ==
    [kind |-> "toon",
     color |-> OriginalColor(h, original),
     map |-> OriginalMap(h, original),
     gradientMap |-> GradientMapOf(h),
     side |-> "double",
     disposed |-> FALSE]

\* The callback without its else branch: disabling leaves the toon material.
UpdateNodeNoRestore(h, m, n, enabled) ==
    LET node == h.models[m][n]
        original == node.originalMat
        toonMat == NewToonMaterial(h, original)
    IN  IF ~node.isMesh THEN h
        ELSE IF enabled
        THEN [h EXCEPT !.materials = Append(h.materials, toonMat),
                       !.srgb = IF toonMat.map # NoTex THEN h.srgb \cup {toonMat.map}
                                ELSE h.srgb,
                       !.models[m][n].material =
                            [arr |-> FALSE, ids |-> <<Len(h.materials) + 1>>]]
        ELSE h

\* demo.ts:174-192, the callback of updateMaterialState's traversal.
UpdateNode(h, m, n, enabled) ==
    LET node == h.models[m][n]
        original == node.originalMat
        toonMat == NewToonMaterial(h, original)
    IN  IF ~node.isMesh THEN h
        ELSE IF enabled
        THEN [h EXCEPT !.materials = Append(h.materials, toonMat),
                       !.srgb = IF toonMat.map # NoTex THEN h.srgb \cup {toonMat.map}
                                ELSE h.srgb,
                       !.models[m][n].material =
                            [arr |-> FALSE, ids |-> <<Len(h.materials) + 1>>]]
        ELSE [h EXCEPT !.models[m][n].material = original]

RECURSIVE DisposeAll(_, _, _)
DisposeAll(h, m, list) ==
    IF list = <<>> THEN h
    ELSE DisposeAll(DisposeNode(h, m, Head(list)), m, Tail(list))

RECURSIVE PrepAll(_, _, _)
PrepAll(h, m, list) ==
    IF list = <<>> THEN h
    ELSE PrepAll(PrepNode(h, m, Head(list)), m, Tail(list))

RECURSIVE UpdateAll(_, _, _, _)
UpdateAll(h, m, list, enabled) ==
    IF list = <<>> THEN h
    ELSE UpdateAll(UpdateNode(h, m, Head(list), enabled), m, Tail(list), enabled)

\* updateMaterialState that derives toon materials whatever the flag says.
updateMaterialStateAlwaysToon(h, cur, enabled) ==
    IF cur = 0 THEN h
    ELSE UpdateAll(h, cur, Traverse(h.models[cur], 1), TRUE)

\* demo.ts:170-194.
updateMaterialState(h, cur, enabled) ==
    IF cur = 0 THEN h
    ELSE UpdateAll(h, cur, Traverse(h.models[cur], 1), enabled)

Heap == [models |-> models, materials |-> materials, srgb |-> srgb]

MeshKeys(h, m) == {<<m, n>> : n \in {k \in 1..Len(h.models[m]) : h.models[m][k].isMesh}}

\* What a derived material references, without its identity.
ToonParams(mat) == [color |-> mat.color, map |-> mat.map, gradientMap |-> mat.gradientMap]

\* History: remember each mesh's first toon derivation.
RecordFirst(h, cur, enabled) ==
    [key \in DOMAIN firstToon \cup (IF cur # 0 /\ enabled THEN MeshKeys(h, cur) ELSE {}) |->
        IF key \in DOMAIN firstToon THEN firstToon[key]
        ELSE [id |-> h.models[key[1]][key[2]].material.ids[1],
              params |-> ToonParams(h.materials[h.models[key[1]][key[2]].material.ids[1]])]]

\* ------------------------------------------------------ the render pipeline
\* Quotients the code computes in floating point are kept as fractions
\* <<numerator, denominator>> and compared by cross-multiplication.
Frac(a, b) == <<a, b>>
FracEq(p, q) == p[1] * q[2] = q[1] * p[2]

Sizes == {<<4, 2>>, <<3, 3>>, <<2, 5>>}
PixelRatios == {1, 2}
CameraNear == Frac(1, 10)
CameraFar == 1000

RenderTarget(w, h) == [width |-> w, height |-> h, written |-> "never", content |-> "none"]

\* ToonShader.ts:127-147, the passes in the order addPass received them.
composerPasses == <<"renderPass", "edgePass", "fxaaPass">>

\* ToonShader.ts:108-147.
createToonPostProcessing(rend, cam, width, height) ==
    LET pixelRatio == rend.pixelRatio
        rtWidth == width * pixelRatio
        rtHeight == height * pixelRatio
    IN  [normalRenderTarget |-> RenderTarget(rtWidth, rtHeight),
         depthRenderTarget |-> RenderTarget(rtWidth, rtHeight),
         composer |-> [width |-> width, height |-> height, passes |-> composerPasses],
         edgePass |-> [resolution |-> <<rtWidth, rtHeight>>,
                       cameraNear |-> cam.near,
                       cameraFar |-> cam.far],
         fxaaPass |-> [resolution |-> <<Frac(1, rtWidth), Frac(1, rtHeight)>>]]

\* The state a frame's render calls thread through.
RenderState == [override |-> sceneOverride,
                target |-> renderer.target,
                normalRT |-> toon.normalRenderTarget,
                depthRT |-> toon.depthRenderTarget,
                log |-> <<>>]

Draw(rt, override) ==
    [rt EXCEPT !.written = "frame",
               !.content = IF override = "normalMaterial" THEN "normals" ELSE "color"]

\* renderer.render(scene, camera): draws the scene, with the scene's override
\* material if one is set, into the current render target.
RendererRender(rs) ==
    [rs EXCEPT !.log = Append(rs.log, [op |-> "renderer.render", target |-> rs.target,
                                        override |-> rs.override, reads |-> <<>>]),
               !.normalRT = IF rs.target = "normal" THEN Draw(rs.normalRT, rs.override)
                            ELSE rs.normalRT,
               !.depthRT = IF rs.target = "depth" THEN Draw(rs.depthRT, rs.override)
                           ELSE rs.depthRT]

\* One pass of the composer.  The render pass draws the scene; the edge pass
\* samples tNormal and tDepth (ToonShader.ts:135-136); the last pass of the
\* chain writes to the screen.
RunPass(rs, pass, last) ==
    [rs EXCEPT !.log = Append(rs.log,
        [op |-> pass,
         target |-> IF last THEN "screen" ELSE "composerBuffer",
         override |-> rs.override,
         reads |-> IF pass = "edgePass"
                   THEN <<rs.normalRT.written, rs.depthRT.written>>
                   ELSE <<>>])]

RECURSIVE RunPasses(_, _)
RunPasses(rs, passes) ==
    IF passes = <<>> THEN rs
    ELSE RunPasses(RunPass(rs, Head(passes), Len(passes) = 1), Tail(passes))

\* ToonShader.ts:163, composer.render() over the passes added at 130-147.
ComposerRender(rs) == RunPasses(rs, toon.composer.passes)

\* render() with the composite chain run before the depth pass.
PipelineRenderCompositeEarly(rs) ==
    LET a1 == [rs EXCEPT !.override = "normalMaterial"]
        a2 == [a1 EXCEPT !.target = "normal"]
        a3 == RendererRender(a2)
        b1 == [a3 EXCEPT !.override = "null"]
        c1 == [b1 EXCEPT !.target = "screen"]
        c2 == ComposerRender(c1)
        b2 == [c2 EXCEPT !.target = "depth"]
        b3 == RendererRender(b2)
    IN  [b3 EXCEPT !.target = "screen"]

\* render() without the reset of the override after the normal pass.
PipelineRenderNoRevert(rs) ==
    LET a1 == [rs EXCEPT !.override = "normalMaterial"]
        a2 == [a1 EXCEPT !.target = "normal"]
        a3 == RendererRender(a2)
        b2 == [a3 EXCEPT !.target = "depth"]
        b3 == RendererRender(b2)
        c1 == [b3 EXCEPT !.target = "screen"]
    IN  ComposerRender(c1)

\* ToonShader.ts:150-164, render().
PipelineRender(rs) ==
    LET a1 == [rs EXCEPT !.override = "normalMaterial"]
        a2 == [a1 EXCEPT !.target = "normal"]
        a3 == RendererRender(a2)
        b1 == [a3 EXCEPT !.override = "null"]
        b2 == [b1 EXCEPT !.target = "depth"]
        b3 == RendererRender(b2)
        c1 == [b3 EXCEPT !.target = "screen"]
    IN  ComposerRender(c1)

\* setSize(w, h) that leaves the Depth buffer at its old size.
PipelineSetSizeStaleDepth(st, w, h) ==
    LET newPixelRatio == st.renderer.pixelRatio
        newRtWidth == w * newPixelRatio
        newRtHeight == h * newPixelRatio
    IN  [renderer |-> [st.renderer EXCEPT !.width = w, !.height = h],
         camera |-> [st.camera EXCEPT !.aspect = Frac(w, h)],
         toon |-> [st.toon EXCEPT
                     !.composer.width = w,
                     !.composer.height = h,
                     !.normalRenderTarget.width = newRtWidth,
                     !.normalRenderTarget.height = newRtHeight,
                     !.edgePass.resolution = <<newRtWidth, newRtHeight>>,
                     !.edgePass.cameraNear = st.camera.near,
                     !.edgePass.cameraFar = st.camera.far,
                     !.fxaaPass.resolution = <<Frac(1, newRtWidth), Frac(1, newRtHeight)>>]]

\* ToonShader.ts:167-187, setSize(w, h) on st = [renderer, camera, toon].
PipelineSetSize(st, w, h) ==
    LET newPixelRatio == st.renderer.pixelRatio
        newRtWidth == w * newPixelRatio
        newRtHeight == h * newPixelRatio
    IN  [renderer |-> [st.renderer EXCEPT !.width = w, !.height = h],
         camera |-> [st.camera EXCEPT !.aspect = Frac(w, h)],
         toon |-> [st.toon EXCEPT
                     !.composer.width = w,
                     !.composer.height = h,
                     !.normalRenderTarget.width = newRtWidth,
                     !.normalRenderTarget.height = newRtHeight,
                     !.depthRenderTarget.width = newRtWidth,
                     !.depthRenderTarget.height = newRtHeight,
                     !.edgePass.resolution = <<newRtWidth, newRtHeight>>,
                     !.edgePass.cameraNear = st.camera.near,
                     !.edgePass.cameraFar = st.camera.far,
                     !.fxaaPass.resolution = <<Frac(1, newRtWidth), Frac(1, newRtHeight)>>]]

\* A new frame begins: what was written during the previous one is old.
Aged(rt) == [rt EXCEPT !.written = IF rt.written = "never" THEN "never" ELSE "earlier"]

\* animate() that runs the pipeline and then draws directly when the flag is off.
AnimateRenderBoth(rs, toonEnabled) ==
    IF toonEnabled THEN PipelineRender(rs) ELSE RendererRender(PipelineRender(rs))

\* demo.ts:283-287, the branch of animate().
AnimateRender(rs, toonEnabled) ==
    IF toonEnabled THEN PipelineRender(rs) ELSE RendererRender(rs)

\* ------------------------------------------------------------------ the demo
Event(kind, prev) == [kind |-> kind, prev |-> prev]

\* History: the material set a mesh carries when its load completes.
LoadedSet(h, m, n) ==
    [ref |-> h.models[m][n].material,
     fields |-> [i \in 1..Len(h.models[m][n].material.ids) |->
                    h.materials[h.models[m][n].material.ids[i]]]]

\* The state once the module script of demo.ts has run (lines 12-56 and
\* 197-206): toon shading on, no model, and the first option's load in
\* flight when the select element has options.
DemoInit(sizes, ratios, initials) ==
    /\ isToonEnabled = TRUE
    /\ currentModel = 0
    /\ scene = {}
    /\ models = <<>>
    /\ materials = <<>>
    /\ srgb = {}
    /\ \E initial \in initials :
          /\ pending = IF initial THEN {[id |-> 1, asset |-> "single", prev |-> 0]} ELSE {}
          /\ nextReq = IF initial THEN 2 ELSE 1
    /\ toggles = 0
    /\ lastEvent = Event("init", 0)
    /\ firstToon = <<>>
    /\ loadedMat = <<>>
    /\ \E sz \in sizes, pr \in ratios :
          /\ window = [w |-> sz[1], h |-> sz[2]]
          /\ renderer = [width |-> sz[1], height |-> sz[2], pixelRatio |-> pr,
                         target |-> "screen"]
          /\ camera = [aspect |-> Frac(sz[1], sz[2]), near |-> CameraNear, far |-> CameraFar]
          /\ toon = createToonPostProcessing(
                        [width |-> sz[1], height |-> sz[2], pixelRatio |-> pr,
                         target |-> "screen"],
                        [aspect |-> Frac(sz[1], sz[2]), near |-> CameraNear,
                         far |-> CameraFar],
                        sz[1], sz[2])
    /\ sceneOverride = "null"
    /\ passLog = <<>>

\* Neither library function has been called.
ToolsIdle ==
    /\ graph = <<>>
    /\ graphRoot = 0
    /\ graphOut = <<>>
    /\ pixel = <<>>
    /\ fragColor = <<>>

Init == DemoInit(Sizes, PixelRatios, BOOLEAN) /\ ToolsIdle

\* demo.ts:111-168 up to the return of gltfLoader.load: the cleanup of the
\* current model, then the request.  Called by the select and file inputs.
LoadModel(asset) ==
    /\ nextReq <= MaxLoads
    /\ LET h == IF currentModel # 0
                THEN DisposeAll(Heap, currentModel, Traverse(models[currentModel], 1))
                ELSE Heap
       IN  /\ models' = h.models
           /\ materials' = h.materials
           /\ srgb' = h.srgb
    /\ scene' = scene \ {currentModel}
    /\ currentModel' = 0
    /\ pending' = pending \cup {[id |-> nextReq, asset |-> asset, prev |-> currentModel]}
    /\ nextReq' = nextReq + 1
    /\ lastEvent' = Event("loadModel", currentModel)
    /\ UNCHANGED <<isToonEnabled, toggles, firstToon, loadedMat, pipeVars, toolVars>>

\* demo.ts:131-161, the onLoad callback of a request in flight.
LoadComplete(req) ==
    /\ req \in pending
    /\ LET mid == Len(models) + 1
           desc == AssetNodes(req.asset)
           h0 == [models |-> Append(models, Instantiate(desc, Len(materials))),
                  materials |-> materials \o MatsFrom(desc, 1, mid),
                  srgb |-> srgb]
           h1 == PrepAll(h0, mid, Traverse(h0.models[mid], 1))
           h2 == updateMaterialState(h1, mid, isToonEnabled)
       IN  /\ models' = h2.models
           /\ materials' = h2.materials
           /\ srgb' = h2.srgb
           /\ currentModel' = mid
           /\ scene' = scene \cup {mid}
           /\ loadedMat' = [key \in DOMAIN loadedMat \cup MeshKeys(h1, mid) |->
                               IF key \in DOMAIN loadedMat THEN loadedMat[key]
                               ELSE LoadedSet(h1, key[1], key[2])]
           /\ firstToon' = RecordFirst(h2, mid, isToonEnabled)
    /\ pending' = pending \ {req}
    /\ lastEvent' = Event("loadComplete", req.prev)
    /\ UNCHANGED <<isToonEnabled, nextReq, toggles, pipeVars, toolVars>>

\* demo.ts:163-166, the onError callback of a request in flight.
LoadError(req) ==
    /\ req \in pending
    /\ pending' = pending \ {req}
    /\ lastEvent' = Event("loadError", req.prev)
    /\ UNCHANGED <<isToonEnabled, currentModel, scene, models, materials, srgb,
                   nextReq, toggles, firstToon, loadedMat, pipeVars, toolVars>>

\* demo.ts:240-244, the click handler of the toggle button.
Toggle ==
    /\ toggles < MaxToggles
    /\ isToonEnabled' = ~isToonEnabled
    /\ LET h == updateMaterialState(Heap, currentModel, ~isToonEnabled)
       IN  /\ models' = h.models
           /\ materials' = h.materials
           /\ srgb' = h.srgb
           /\ firstToon' = RecordFirst(h, currentModel, ~isToonEnabled)
    /\ toggles' = toggles + 1
    /\ lastEvent' = Event("toggle", currentModel)
    /\ UNCHANGED <<currentModel, scene, pending, nextReq, loadedMat, pipeVars, toolVars>>

\* demo.ts:271-288, one tick of the animation loop.
Animate ==
    /\ LET rs0 == [RenderState EXCEPT !.normalRT = Aged(toon.normalRenderTarget),
                                      !.depthRT = Aged(toon.depthRenderTarget)]
           rs == AnimateRender(rs0, isToonEnabled)
       IN  /\ sceneOverride' = rs.override
           /\ renderer' = [renderer EXCEPT !.target = rs.target]
           /\ toon' = [toon EXCEPT !.normalRenderTarget = rs.normalRT,
                                   !.depthRenderTarget = rs.depthRT]
           /\ passLog' = rs.log
    /\ lastEvent' = Event("animate", currentModel)
    /\ UNCHANGED <<window, camera, isToonEnabled, toggles, heapVars, toolVars>>

\* demo.ts:261-268, the resize handler, the window having taken size sz.
Resize(sz) ==
    /\ window' = [w |-> sz[1], h |-> sz[2]]
    /\ LET width == sz[1]
           height == sz[2]
           st == PipelineSetSize(
                    [renderer |-> [renderer EXCEPT !.width = width, !.height = height],
                     camera |-> [camera EXCEPT !.aspect = Frac(width, height)],
                     toon |-> toon],
                    width, height)
       IN  /\ renderer' = st.renderer
           /\ camera' = st.camera
           /\ toon' = st.toon
    /\ lastEvent' = Event("resize", currentModel)
    /\ UNCHANGED <<sceneOverride, passLog, isToonEnabled, toggles, heapVars, toolVars>>

Next ==
    \/ \E asset \in AssetNames : LoadModel(asset)
    \/ \E req \in pending : LoadComplete(req)
    \/ \E req \in pending : LoadError(req)
    \/ Toggle
    \/ Animate
    \/ \E sz \in Sizes : Resize(sz)

Spec == Init /\ [][Next]_vars

\* The viewer's model handling and the frame pipeline share only the toon
\* flag: no handler of the one reads or writes a variable of the other.
\* Each is explored on its own; the viewer under one window size, which
\* none of its handlers reads.
NextViewer ==
    \/ \E asset \in AssetNames : LoadModel(asset)
    \/ \E req \in pending : LoadComplete(req)
    \/ \E req \in pending : LoadError(req)
    \/ Toggle

InitViewer == DemoInit({<<4, 2>>}, {1}, BOOLEAN) /\ ToolsIdle

SpecViewer == InitViewer /\ [][NextViewer]_vars

NextPipeline ==
    \/ Toggle
    \/ Animate
    \/ \E sz \in Sizes : Resize(sz)

SpecPipeline == Init /\ [][NextPipeline]_vars

\* ============================================================= properties
ActiveIds(m, n) == MatIds(models[m][n].material)

Undisposed(m) ==
    \A key \in MeshKeys(Heap, m) :
        /\ ~models[m][key[2]].geomDisposed
        /\ \A id \in ActiveIds(m, key[2]) : ~materials[id].disposed

\* C1: after the error callback of a load, the model that was displayed when
\* the load was requested is still in the scene, is still currentModel, and
\* none of its geometry or materials is disposed.
C1_FailedLoadKeepsPrevious ==
    (lastEvent.kind = "loadError" /\ lastEvent.prev # 0) =>
        /\ lastEvent.prev \in scene
        /\ currentModel = lastEvent.prev
        /\ Undisposed(lastEvent.prev)

\* C2: at every moment the scene holds at most one model wrapper, and the
\* wrapper it holds is currentModel.
C2_SingleModelInScene ==
    /\ Cardinality(scene) <= 1
    /\ scene = {} \/ scene = {currentModel}

\* C7: while toon shading is enabled, each mesh of the current model carries
\* one toon material whose ramp, base color and albedo texture are those of
\* the mesh's first toon derivation, and are those derived from its backup.
C7_ToggleRoundTrip ==
    (currentModel # 0 /\ isToonEnabled) =>
        \A key \in MeshKeys(Heap, currentModel) :
            LET node == models[key[1]][key[2]]
                ref == node.material
            IN  /\ ~ref.arr /\ Len(ref.ids) = 1
                /\ materials[ref.ids[1]].kind = "toon"
                /\ key \in DOMAIN firstToon
                /\ ToonParams(materials[ref.ids[1]]) = firstToon[key].params
                /\ ToonParams(materials[ref.ids[1]]) =
                       [color |-> OriginalColor(Heap, node.originalMat),
                        map |-> OriginalMap(Heap, node.originalMat),
                        gradientMap |-> RAMP]

\* C7's case: toon shading was disabled and re-enabled on a displayed model;
\* a multi-slot mesh and a textured single-slot mesh both carry a toon
\* material that is not the object of their first derivation.
C7_Witness ==
    /\ currentModel # 0 /\ isToonEnabled /\ toggles >= 2
    /\ \E key \in MeshKeys(Heap, currentModel) :
          /\ key \in DOMAIN firstToon
          /\ firstToon[key].id # models[key[1]][key[2]].material.ids[1]
          /\ models[key[1]][key[2]].originalMat.arr
    /\ \E key \in MeshKeys(Heap, currentModel) :
          /\ key \in DOMAIN firstToon
          /\ firstToon[key].params.map # NoTex
          /\ firstToon[key].params.color = "white"
          /\ firstToon[key].id # models[key[1]][key[2]].material.ids[1]
          /\ materials[models[key[1]][key[2]].material.ids[1]].kind = "toon"

Undisposing(mat) == [mat EXCEPT !.disposed = FALSE]

Call(op, target) == [op |-> op, target |-> target]
Calls(log) == [i \in 1..Len(log) |-> Call(log[i].op, log[i].target)]
Count(log, op, target) ==
    Cardinality({i \in 1..Len(log) : log[i].op = op /\ log[i].target = target})

FrameOf(kind, enabled) == lastEvent.kind = kind /\ isToonEnabled = enabled

\* C3: a frame rendered by the pipeline is exactly: the scene into the
\* Normal buffer, the scene into the Depth buffer, then the render pass, the
\* edge pass and the anti-alias pass, the last to the screen; the edge pass
\* samples a Normal buffer and a Depth buffer both written in that frame,
\* the Normal buffer holding normals.
C3_PassOrder ==
    FrameOf("animate", TRUE) =>
        /\ Calls(passLog) = << Call("renderer.render", "normal"),
                               Call("renderer.render", "depth"),
                               Call("renderPass", "composerBuffer"),
                               Call("edgePass", "composerBuffer"),
                               Call("fxaaPass", "screen") >>
        /\ passLog[4].reads = <<"frame", "frame">>
        /\ toon.normalRenderTarget.content = "normals"

\* C3's case: a pipeline frame, rendered at pixel ratio 2 after toon shading
\* was switched off and on again, has run all five passes.
C3_Witness ==
    /\ FrameOf("animate", TRUE)
    /\ Len(passLog) = 5
    /\ toggles = 2
    /\ renderer.pixelRatio = 2
    /\ toon.normalRenderTarget.written = "frame"
    /\ toon.depthRenderTarget.written = "frame"

\* C4: scene.overrideMaterial is null whenever no render() is running, and
\* within a frame the only draw that sees the normal material is the draw
\* into the Normal buffer, which does see it.
C4_OverrideScoped ==
    /\ sceneOverride = "null"
    /\ \A i \in 1..Len(passLog) :
          passLog[i].override = "normalMaterial"
              <=> Call(passLog[i].op, passLog[i].target) = Call("renderer.render", "normal")
    /\ FrameOf("animate", TRUE) => passLog[1].override = "normalMaterial"

\* C4's case: a direct renderer.render frame after a pipeline frame has set
\* and cleared the override.
C4_Witness ==
    /\ FrameOf("animate", FALSE)
    /\ toon.normalRenderTarget.content = "normals"
    /\ Len(passLog) = 1
    /\ passLog[1].override = "null"

\* C5: the Normal and Depth buffers measure window size times pixel ratio,
\* the edge pass's resolution is that size, the anti-alias resolution its
\* reciprocals, the edge pass's near and far are the camera's, and the
\* camera's aspect is width over height.
C5_SizesConsistent ==
    LET W == window.w * renderer.pixelRatio
        H == window.h * renderer.pixelRatio
    IN  /\ toon.normalRenderTarget.width = W /\ toon.normalRenderTarget.height = H
        /\ toon.depthRenderTarget.width = W /\ toon.depthRenderTarget.height = H
        /\ toon.edgePass.resolution = <<W, H>>
        /\ toon.fxaaPass.resolution[1][1] * W = toon.fxaaPass.resolution[1][2]
        /\ toon.fxaaPass.resolution[2][1] * H = toon.fxaaPass.resolution[2][2]
        /\ toon.edgePass.cameraNear = camera.near
        /\ toon.edgePass.cameraFar = camera.far
        /\ FracEq(camera.aspect, Frac(window.w, window.h))

\* C5's case: setSize has run after a rendered frame, at pixel ratio 2, to
\* a size that is not square.
C5_Witness ==
    /\ lastEvent.kind = "resize"
    /\ renderer.pixelRatio = 2
    /\ toon.depthRenderTarget.written = "earlier"
    /\ toon.depthRenderTarget.width = 4 /\ toon.depthRenderTarget.height = 10

\* C6: a frame with the toon flag off is one draw of the scene to the screen
\* and writes neither auxiliary buffer; a frame with the flag on is one run
\* of each pipeline pass and no direct draw to the screen.
C6_FrameBranch ==
    lastEvent.kind = "animate" =>
        IF isToonEnabled
        THEN /\ Count(passLog, "renderer.render", "screen") = 0
             /\ Count(passLog, "renderer.render", "normal") = 1
             /\ Count(passLog, "renderer.render", "depth") = 1
             /\ Count(passLog, "renderPass", "composerBuffer") = 1
             /\ Count(passLog, "edgePass", "composerBuffer") = 1
             /\ Count(passLog, "fxaaPass", "screen") = 1
             /\ Len(passLog) = 5
        ELSE /\ Count(passLog, "renderer.render", "screen") = 1
             /\ Len(passLog) = 1
             /\ toon.normalRenderTarget.written # "frame"
             /\ toon.depthRenderTarget.written # "frame"

\* C6's case: a frame with the flag off, after frames with the flag on left
\* the buffers written.
C6_Witness ==
    /\ FrameOf("animate", FALSE)
    /\ toon.normalRenderTarget.written = "earlier"
    /\ toon.depthRenderTarget.written = "earlier"
    /\ Count(passLog, "renderer.render", "screen") = 1

\* ------------------------------------------------------ applyToonMaterial
\* ToonMaterials.ts:20-48, on graphs whose meshes carry their materials
\* inline: material = [arr, mats], arr telling an array from a single
\* material, which is a mats of length one.
MaxNodes == 3
MaxSlots == 2

Undefined == <<"undefined", 0, 0>>
White == <<"white", 0, 0>>

\* The materials a caller's meshes may carry: with or without a color and a
\* map, each slot of each node distinguishable by its opacity.
SourceMaterial(n, i) ==
    [kind |-> "standard",
     color |-> IF (n + i) % 2 = 0 THEN Undefined ELSE <<"color", n, i>>,
     map |-> IF i % 2 = 0 THEN NoTex ELSE <<n, "tex">>,
     gradientMap |-> NoTex,
     transparent |-> (n % 2 = 0),
     opacity |-> 10 * n + i,
     side |-> IF i = 1 THEN "front" ELSE "double"]

NodeKinds ==
    {[isMesh |-> FALSE, arr |-> FALSE, n |-> 0], [isMesh |-> TRUE, arr |-> FALSE, n |-> 1]}
    \cup {[isMesh |-> TRUE, arr |-> TRUE, n |-> k] : k \in 0..MaxSlots}

Parents == {p \in [1..MaxNodes -> 0..MaxNodes] :
               p[1] = 0 /\ \A i \in 2..MaxNodes : p[i] \in 1..(i - 1)}

Graphs ==
    {[n \in 1..MaxNodes |->
         [parent |-> p[n],
          isMesh |-> k[n].isMesh,
          material |-> [arr |-> k[n].arr,
                        mats |-> [i \in 1..k[n].n |-> SourceMaterial(n, i)]]]] :
     p \in Parents, k \in [1..MaxNodes -> NodeKinds]}

\* ToonMaterials.ts:29-41, the toon material made from one source material.
ToonFrom(stdMat, gradientMap) ==
    [kind |-> "toon",
     color |-> IF stdMat.color # Undefined THEN stdMat.color ELSE White,
     map |-> stdMat.map,
     gradientMap |-> gradientMap,
     transparent |-> stdMat.transparent,
     opacity |-> stdMat.opacity,
     side |-> stdMat.side]

\* ToonMaterials.ts:27-43, materials.forEach(... newMaterials.push(toonMat)).
RECURSIVE PushToon(_, _, _)
PushToon(newMaterials, mats, gradientMap) ==
    IF mats = <<>> THEN newMaterials
    ELSE PushToon(Append(newMaterials, ToonFrom(Head(mats), gradientMap)),
                  Tail(mats), gradientMap)

\* ToonMaterials.ts:45.
Collapse(newMaterials) ==
    IF Len(newMaterials) = 1 THEN [arr |-> FALSE, mats |-> newMaterials]
    ELSE [arr |-> TRUE, mats |-> newMaterials]

\* ToonMaterials.ts:22-46, the traversal callback.
ApplyToonNode(nodes, n, gradientMap) ==
    IF nodes[n].isMesh
    THEN LET mats == nodes[n].material.mats
             newMaterials == PushToon(<<>>, mats, gradientMap)
         IN  [nodes EXCEPT ![n].material = Collapse(newMaterials)]
    ELSE nodes

RECURSIVE ApplyToonAll(_, _, _)
ApplyToonAll(nodes, list, gradientMap) ==
    IF list = <<>> THEN nodes
    ELSE ApplyToonAll(ApplyToonNode(nodes, Head(list), gradientMap), Tail(list), gradientMap)

\* ToonMaterials.ts:20-48.
applyToonMaterial(nodes, object, gradientMap) ==
    ApplyToonAll(nodes, Traverse(nodes, object), gradientMap)

InitMaterials ==
    /\ DemoInit({<<4, 2>>}, {1}, {FALSE})
    /\ graph \in Graphs
    /\ graphRoot \in 1..MaxNodes
    /\ graphOut = <<>>
    /\ pixel = <<>>
    /\ fragColor = <<>>

ApplyToon ==
    /\ graphOut = <<>>
    /\ graphOut' = applyToonMaterial(graph, graphRoot, RAMP)
    /\ UNCHANGED <<graph, graphRoot, pixel, fragColor, modelVars, pipeVars>>

NextMaterials == ApplyToon

SpecMaterials == InitMaterials /\ [][NextMaterials]_vars

RECURSIVE IsUnder(_, _, _)
IsUnder(nodes, n, r) ==
    \/ n = r
    \/ nodes[n].parent # 0 /\ IsUnder(nodes, nodes[n].parent, r)

RECURSIVE Depth(_, _, _)
Depth(nodes, n, r) == IF n = r THEN 0 ELSE 1 + Depth(nodes, nodes[n].parent, r)

\* C9: after applyToonMaterial(root), every mesh at or below the root, at
\* any depth, with N material slots carries N toon materials, the i-th made
\* from the i-th original (its color or white, its map, transparency,
\* opacity and side, and the ramp); as a single material when N = 1 and as
\* a collection of N otherwise.
C9_ApplyToon ==
    graphOut # <<>> =>
        \A n \in 1..Len(graph) :
            (graph[n].isMesh /\ IsUnder(graph, n, graphRoot)) =>
                LET old == graph[n].material.mats
                    new == graphOut[n].material
                IN  /\ Len(new.mats) = Len(old)
                    /\ new.arr <=> Len(old) # 1
                    /\ \A i \in 1..Len(old) :
                          /\ new.mats[i].kind = "toon"
                          /\ new.mats[i].gradientMap = RAMP
                          /\ new.mats[i].opacity = old[i].opacity
                          /\ new.mats[i].side = old[i].side
                          /\ new.mats[i].transparent = old[i].transparent
                          /\ new.mats[i].map = old[i].map
                          /\ new.mats[i].color =
                                 IF old[i].color = Undefined THEN White ELSE old[i].color

\* C9's case: the call has run on a root with a one-element collection one
\* level down and a two-slot mesh two levels down.
C9_Witness ==
    /\ graphOut # <<>>
    /\ \E a, b \in 1..Len(graph) :
          /\ IsUnder(graph, a, graphRoot) /\ Depth(graph, a, graphRoot) = 1
          /\ graph[a].isMesh /\ graph[a].material.arr /\ Len(graph[a].material.mats) = 1
          /\ ~graphOut[a].material.arr
          /\ IsUnder(graph, b, graphRoot) /\ Depth(graph, b, graphRoot) = 2
          /\ graph[b].isMesh /\ Len(graph[b].material.mats) = 2
          /\ graphOut[b].material.arr /\ Len(graphOut[b].material.mats) = 2

\* ------------------------------------------------- the edge filter fragment
\* ToonShader.ts:40-94 in fixed point.  Raw depth samples are in units of
\* 1/10000, linear depths and their differences in 1/100, colors and normal
\* components in 1/100, squared normal differences in 1/10000, indicators
\* and blend weights in 1/1000.  Divisions round down.
DepthUnit == 100 * 100
Milli == 10 * 100

SkyboxDepth == 9999
DepthThreshold == 50
DepthBand == 10
NormalThresholdSq == 800
NormalBand == 500
EdgeThreshold == 100
AlphaNumerator == 12
AlphaOffset == 2

Clamp(x, lo, hi) == IF x < lo THEN lo ELSE IF x > hi THEN hi ELSE x
Max(a, b) == IF a >= b THEN a ELSE b

\* ToonShader.ts:40-44, getLinearDepth on a raw sample, in 1/100.
getLinearDepth(zb, near, far) ==
    LET num == 2 * near[1] * far * DepthUnit
        den == (far * near[2] + near[1]) * DepthUnit
               - (2 * zb - DepthUnit) * (far * near[2] - near[1])
    IN  (num * 100) \div den

\* smoothstep(edge0, edge0 + band, x), in 1/1000.
SmoothStep(edge0, band, x) ==
    LET t == Clamp(((x - edge0) * Milli) \div band, 0, Milli)
    IN  (t * t * (3 * Milli - 2 * t)) \div (Milli * Milli)

RECURSIVE SqrtFrom(_, _)
SqrtFrom(x, r) == IF (r + 1) * (r + 1) > x THEN r ELSE SqrtFrom(x, r + 1)
Sqrt(x) == SqrtFrom(x, 0)

\* A depth difference beyond 1.00 is kept at 1.00: the only reader of the
\* norm is a smoothstep that is 1 from 0.60 on.
Bounded(d) == Clamp(d, -100, 100)

Dot(u, v) == u[1] * v[1] + u[2] * v[2] + u[3] * v[3]
Sub(u, v) == <<u[1] - v[1], u[2] - v[2], u[3] - v[3]>>

\* ToonShader.ts:60-69.
DepthIndicator(px) ==
    LET d_t == getLinearDepth(px.depth_t, px.cameraNear, px.cameraFar)
        d_b == getLinearDepth(px.depth_b, px.cameraNear, px.cameraFar)
        d_l == getLinearDepth(px.depth_l, px.cameraNear, px.cameraFar)
        d_r == getLinearDepth(px.depth_r, px.cameraNear, px.cameraFar)
        depthDiffX == Bounded(d_r - d_l)
        depthDiffY == Bounded(d_t - d_b)
        depthEdge == Sqrt(depthDiffX * depthDiffX + depthDiffY * depthDiffY)
    IN  SmoothStep(DepthThreshold, DepthBand, depthEdge)

\* ToonShader.ts:72-82.
NormalIndicator(px) ==
    LET normalDiffX == Sub(px.n_r, px.n_l)
        normalDiffY == Sub(px.n_t, px.n_b)
        normalEdgeSq == Dot(normalDiffX, normalDiffX) + Dot(normalDiffY, normalDiffY)
    IN  SmoothStep(NormalThresholdSq, NormalBand, normalEdgeSq)

\* ToonShader.ts:85.
EdgeOf(px) == Max(DepthIndicator(px), NormalIndicator(px))

\* mix(x, y, a) on each component, a in 1/1000.
Mix(x, y, a) == [i \in 1..4 |-> (x[i] * (Milli - a) + y[i] * a) \div Milli]

\* ToonShader.ts:87-93, the branch on the combined indicator.
Composite(px) ==
    LET edge == EdgeOf(px)
        centerDepth == getLinearDepth(px.rawDepth, px.cameraNear, px.cameraFar)
        lineAlpha == Clamp((AlphaNumerator * 100 * Milli) \div (AlphaOffset * 100 + centerDepth),
                           0, Milli)
        outline == <<px.outlineColor[1], px.outlineColor[2], px.outlineColor[3], 100>>
    IN  IF edge > EdgeThreshold
        THEN Mix(px.originalColor, outline, (lineAlpha * edge) \div Milli)
        ELSE px.originalColor

\* main() without the background test.
FragmentMainNoSkybox(px) == Composite(px)

\* ToonShader.ts:46-94, main(): gl_FragColor.
FragmentMain(px) ==
    IF px.rawDepth >= SkyboxDepth THEN px.originalColor ELSE Composite(px)

\* The samples a fragment may read.  Depths: mid-range, two a little and a
\* little more behind it, the last value below the background cut, the cut
\* and the far plane.  Normals: facing the camera, slightly and a little
\* more tilted, and facing sideways.
CenterDepths == {5000, 9998, 9999, 10000}
NearDepths == {5000, 10000}
FarDepths == {5000, 8573, 8650, 10000}
BaseNormals == {<<50, 50, 100>>}
TiltNormals == {<<50, 50, 100>>, <<79, 53, 100>>, <<80, 50, 90>>, <<100, 50, 50>>}
Colors == {<<100, 50, 0, 100>>, <<0, 0, 0, 100>>}
OutlineColors == {<<0, 0, 0>>, <<100, 0, 0>>}

Pixels ==
    [originalColor : Colors, outlineColor : OutlineColors,
     rawDepth : CenterDepths,
     depth_l : NearDepths, depth_b : NearDepths, depth_r : FarDepths, depth_t : FarDepths,
     n_l : BaseNormals, n_b : TiltNormals, n_r : TiltNormals, n_t : BaseNormals,
     cameraNear : {CameraNear}, cameraFar : {CameraFar}]

InitShader ==
    /\ DemoInit({<<4, 2>>}, {1}, {FALSE})
    /\ graph = <<>>
    /\ graphRoot = 0
    /\ graphOut = <<>>
    /\ pixel \in Pixels
    /\ fragColor = <<>>

RunFragment ==
    /\ fragColor = <<>>
    /\ fragColor' = FragmentMain(pixel)
    /\ UNCHANGED <<graph, graphRoot, graphOut, pixel, modelVars, pipeVars>>

NextShader == RunFragment

SpecShader == InitShader /\ [][NextShader]_vars

\* C10: a fragment whose raw depth is at or above 0.9999, or whose combined
\* edge indicator is at most 0.1, comes out with its input color.
C10_PassThrough ==
    (fragColor # <<>> /\ (pixel.rawDepth >= SkyboxDepth \/ EdgeOf(pixel) <= EdgeThreshold))
        => fragColor = pixel.originalColor

\* C10's case: a background fragment that sits on a full edge came out
\* unchanged although the outline color differs from its color.
C10_Witness ==
    /\ fragColor # <<>>
    /\ pixel.rawDepth = SkyboxDepth
    /\ EdgeOf(pixel) = Milli
    /\ pixel.originalColor = <<100, 50, 0, 100>>
    /\ fragColor = pixel.originalColor

\* ------------------------------------------- properties across the handlers
HasToon(m, n) ==
    LET ref == models[m][n].material
    IN  /\ ~ref.arr /\ Len(ref.ids) = 1
        /\ materials[ref.ids[1]].kind = "toon"

\* C11: after every handler, when there is a current model, each of its
\* meshes carries a toon material exactly when the toon flag is on.
C11_MaterialsFollowFlag ==
    currentModel # 0 =>
        \A key \in MeshKeys(Heap, currentModel) :
            HasToon(key[1], key[2]) <=> isToonEnabled

\* C11's case: the only model ever loaded completed its load after the one
\* toggle so far, which therefore ran with no current model; the model never
\* had a toon material and shows its loaded materials.
C11_Witness ==
    /\ lastEvent.kind = "loadComplete"
    /\ currentModel = 1 /\ Len(models) = 1
    /\ toggles = 1 /\ ~isToonEnabled
    /\ MeshKeys(Heap, 1) \cap DOMAIN firstToon = {}
    /\ \A key \in MeshKeys(Heap, 1) : models[1][key[2]].material = loadedMat[key].ref

====
